---------------------------- MODULE Spec2Model ----------------------------
(***************************************************************************)
(* Task-Priority: the cycle detector and the scoring engine of             *)
(* backend/tasks/scoring.py.                                               *)
(*                                                                         *)
(* SpecCycle runs detect_circular_dependencies step by step (one action    *)
(* per entry of dfs, per turn of a for loop, per return) over every batch  *)
(* within the bounds and every iteration order of the set task_ids.        *)
(* SpecScore applies the scorers to inputs drawn from bounded sets.        *)
(* SpecCore is the two together, FairSpecCycle the detector scheduled.     *)
(* SpecView runs the request handlers of backend/tasks/views.py,           *)
(* analyze_tasks and suggest_tasks, over bounded requests.                 *)
(***************************************************************************)
EXTENDS Integers, Sequences, FiniteSets, TLC

VARIABLES
    tasks,        \* the batch handed to the core: a sequence of task records
    order,        \* the order in which `for task_id in task_ids` yields the set
    graph,        \* scoring.py:21  adjacency list, id -> list of dependency ids
    task_ids,     \* scoring.py:22
    visited,      \* scoring.py:30
    rec_stack,    \* scoring.py:31
    cycles,       \* scoring.py:32
    stack,        \* the activations of dfs: <<[node, path, i]>>, innermost last
    taken,        \* how many elements of task_ids the loop at line 55 has taken
    pc,           \* position in detect_circular_dependencies
    today,        \* what date.today() returns
    call,         \* the scoring call under way: [fn, a, b] (two argument lists)
    out,          \* the results returned so far by the calls of `call`
    second,       \* what a second call of the detector on the same batch returned
    request,      \* views.py: the HTTP request being handled
    scored_tasks, \* views.py:85
    response      \* views.py: the Response returned

vars == <<tasks, order, graph, task_ids, visited, rec_stack, cycles, stack, taken,
          pc, today, call, out, second, request, scored_tasks, response>>

cycleVars == <<graph, task_ids, visited, rec_stack, cycles, stack, taken, pc>>
scoreVars == <<today, call, out>>
viewVars == <<request, scored_tasks, response>>

-----------------------------------------------------------------------------
(* Bounds *)

\* A batch of the detector has up to MaxTasks tasks, which list up to MaxEdges
\* dependencies in all.
MaxTasks == 3
MaxEdges == 4

\* Due dates range from MaxOverdue days before day 0 to MaxDays days after it.
MaxOverdue == 20
MaxDays == 66

\* date.today() is one of the days 0..MaxToday.
MaxToday == 1

\* Estimates range up to MaxHours hours; importance ratings from ImpSlack
\* below 1 to ImpSlack above 10; a task has up to MaxDependents dependents.
MaxHours == 90
ImpSlack == 3
MaxDependents == 4

\* A request carries up to MaxRequestTasks tasks.
MaxRequestTasks == 2

\* Ids a task or a dependency may carry.  An id of the pool that no task of
\* the batch carries is a reference to a task outside the batch.
IdPool == {"A", "B", "C"}

-----------------------------------------------------------------------------
(* Values *)

None == [kind |-> "none", n |-> 0]
IntV(n) == [kind |-> "int", n |-> n]
Num(n) == [kind |-> "num", n |-> n]
Date(d) == [kind |-> "date", n |-> d]

SeqsUpTo(S, n) == UNION {[1..m -> S] : m \in 0..n}

Range(s) == {s[i] : i \in 1..Len(s)}

\* list.index(x): the first position of x
Index(s, x) == CHOOSE i \in 1..Len(s) : s[i] = x /\ \A j \in 1..(i - 1) : s[j] # x

\* s[i:] for a 1-based i
From(s, i) == SubSeq(s, i, Len(s))

Task(id, deps) ==
    [id |-> id, title |-> id, due_date |-> None, estimated_hours |-> None,
     importance |-> IntV(5), dependencies |-> deps]

\* str(task.get('id', task.get('title', ''))): every task of the model carries an id
TaskId(task) == task.id

-----------------------------------------------------------------------------
(* detect_circular_dependencies, scoring.py:10-59 *)

\* lines 24-27: a later task with the same id overwrites the entry of an earlier one
BuildGraph(ts) ==
    [id \in {TaskId(ts[i]) : i \in 1..Len(ts)} |->
        LET last == CHOOSE i \in 1..Len(ts) :
                        /\ TaskId(ts[i]) = id
                        /\ \A j \in (i + 1)..Len(ts) : TaskId(ts[j]) # id
        IN  ts[last].dependencies]

\* graph.get(node, [])
GraphGet(g, node) == IF node \in DOMAIN g THEN g[node] ELSE <<>>

\* line 50: a dependency is followed only if it names a task of the batch
Followed(ids, neighbor) == neighbor \in ids

\* the cycle without the closing element
CycleFrom_Unclosed(path, node) == From(path, Index(path, node))

\* the cycle recorded as the repeated node alone
CycleFrom_NodeOnly(path, node) == <<node, node>>

\* lines 37-38
CycleFrom(path, node) == Append(From(path, Index(path, node)), node)

\* The state of one run of the detector, as a record.
DfsState(g, ids, v, r, c, s, n, p) ==
    [graph |-> g, task_ids |-> ids, visited |-> v, rec_stack |-> r,
     cycles |-> c, stack |-> s, taken |-> n, pc |-> p]

\* dfs with the test of line 42 before the test of line 35
DfsEnter_VisitedFirst(d, node, path) ==
    IF node \in d.visited
      THEN d
      ELSE [d EXCEPT !.visited = @ \cup {node},
                     !.rec_stack = @ \cup {node},
                     !.stack = Append(@, [node |-> node,
                                          path |-> Append(path, node),
                                          i |-> 1])]

\* lines 35-47: entering dfs(node, path)
DfsEnter(d, node, path) ==
    IF node \in d.rec_stack
      THEN [d EXCEPT !.cycles = Append(@, CycleFrom(path, node))]
      ELSE IF node \in d.visited
        THEN d
        ELSE [d EXCEPT !.visited = @ \cup {node},
                       !.rec_stack = @ \cup {node},
                       !.stack = Append(@, [node |-> node,
                                            path |-> Append(path, node),
                                            i |-> 1])]

\* the loop left at the first dependency outside the batch
DfsNeighbor_Break(d) ==
    LET top == d.stack[Len(d.stack)]
        deps == GraphGet(d.graph, top.node)
        neighbor == deps[top.i]
    IN  IF Followed(d.task_ids, neighbor)
          THEN DfsEnter([d EXCEPT !.stack[Len(d.stack)].i = top.i + 1],
                        neighbor, top.path)
          ELSE [d EXCEPT !.stack[Len(d.stack)].i = Len(deps) + 1]

\* lines 49-51: one turn of `for neighbor in graph.get(node, [])` in the
\* innermost activation
DfsNeighbor(d) ==
    LET top == d.stack[Len(d.stack)]
        neighbor == GraphGet(d.graph, top.node)[top.i]
        adv == [d EXCEPT !.stack[Len(d.stack)].i = top.i + 1]
    IN  IF Followed(d.task_ids, neighbor)
          THEN DfsEnter(adv, neighbor, top.path)
          ELSE adv

\* line 53 taking the node out of `visited` as well
DfsReturn_Unvisit(d) ==
    LET top == d.stack[Len(d.stack)]
    IN  [d EXCEPT !.rec_stack = @ \ {top.node},
                  !.visited = @ \ {top.node},
                  !.stack = SubSeq(@, 1, Len(@) - 1)]

\* line 53, and the return of the innermost activation
DfsReturn(d) ==
    LET top == d.stack[Len(d.stack)]
    IN  [d EXCEPT !.rec_stack = @ \ {top.node},
                  !.stack = SubSeq(@, 1, Len(@) - 1)]

\* lines 55-57: one turn of `for task_id in task_ids`
DfsStart(d, ord) ==
    LET task_id == ord[d.taken + 1]
        adv == [d EXCEPT !.taken = @ + 1]
    IN  IF task_id \notin d.visited THEN DfsEnter(adv, task_id, <<>>) ELSE adv

\* line 30 with `visited` kept from the call before (a set that outlives the call)
DetectBegin_Carry(ts) ==
    DfsState(BuildGraph(ts), {TaskId(ts[i]) : i \in 1..Len(ts)},
             visited, {}, <<>>, <<>>, 0, "loop")

\* lines 21-32
DetectBegin(ts) ==
    DfsState(BuildGraph(ts), {TaskId(ts[i]) : i \in 1..Len(ts)},
             {}, {}, <<>>, <<>>, 0, "loop")

LoopPending(d) == Len(d.stack) > 0 /\ d.stack[Len(d.stack)].i <=
                      Len(GraphGet(d.graph, d.stack[Len(d.stack)].node))

DetectStep(d, ord) ==
    IF Len(d.stack) > 0
      THEN IF LoopPending(d) THEN DfsNeighbor(d) ELSE DfsReturn(d)
      ELSE IF d.taken < Len(ord) THEN DfsStart(d, ord) ELSE [d EXCEPT !.pc = "done"]

RECURSIVE DetectRun(_, _)
DetectRun(d, ord) == IF d.pc = "done" THEN d ELSE DetectRun(DetectStep(d, ord), ord)

\* the list the function returns for a batch and an iteration order of its ids
detect_circular_dependencies(ts, ord) == DetectRun(DetectBegin(ts), ord).cycles

-----------------------------------------------------------------------------
(* The detector as a state machine *)

Cur == DfsState(graph, task_ids, visited, rec_stack, cycles, stack, taken, pc)

Becomes(d) ==
    /\ graph' = d.graph
    /\ task_ids' = d.task_ids
    /\ visited' = d.visited
    /\ rec_stack' = d.rec_stack
    /\ cycles' = d.cycles
    /\ stack' = d.stack
    /\ taken' = d.taken
    /\ pc' = d.pc

Detect_Begin ==
    /\ pc = "call"
    /\ Becomes(DetectBegin(tasks))
    /\ UNCHANGED <<tasks, order, scoreVars, second, viewVars>>

Detect_Start ==
    /\ pc = "loop"
    /\ stack = <<>>
    /\ taken < Len(order)
    /\ Becomes(DfsStart(Cur, order))
    /\ UNCHANGED <<tasks, order, scoreVars, second, viewVars>>

Dfs_Neighbor ==
    /\ pc = "loop"
    /\ LoopPending(Cur)
    /\ Becomes(DfsNeighbor(Cur))
    /\ UNCHANGED <<tasks, order, scoreVars, second, viewVars>>

Dfs_Return ==
    /\ pc = "loop"
    /\ stack # <<>>
    /\ ~LoopPending(Cur)
    /\ Becomes(DfsReturn(Cur))
    /\ UNCHANGED <<tasks, order, scoreVars, second, viewVars>>

Detect_Return ==
    /\ pc = "loop"
    /\ stack = <<>>
    /\ taken = Len(order)
    /\ pc' = "done"
    /\ UNCHANGED <<tasks, order, graph, task_ids, visited, rec_stack, cycles,
                   stack, taken, scoreVars, second, viewVars>>

\* the caller calls the detector once more on the same batch: the whole call
Detect_Again ==
    /\ pc = "done"
    /\ second' = detect_circular_dependencies(tasks, order)
    /\ pc' = "again"
    /\ UNCHANGED <<tasks, order, graph, task_ids, visited, rec_stack, cycles,
                   stack, taken, scoreVars, viewVars>>

-----------------------------------------------------------------------------
(* Batches *)

RECURSIVE SumTo(_, _)
SumTo(f, i) == IF i = 0 THEN 0 ELSE f[i] + SumTo(f, i - 1)

\* how many dependencies each of n tasks lists: at most MaxEdges in all
DepCounts(n) == {c \in [1..n -> 0..MaxEdges] : SumTo(c, n) <= MaxEdges}

IdRank(id) == CASE id = "A" -> 1 [] id = "B" -> 2 [] OTHER -> 3

Multiplicity(s, id) == Cardinality({i \in 1..Len(s) : s[i] = id})

\* The ids of the tasks of a batch of n tasks.  The detector reads ids only
\* to compare them, and reads the position of a task only to let a later task
\* overwrite an earlier one with the same id, so the batches are taken up to
\* a renaming of the ids and up to the position of tasks with different ids:
\* equal ids are adjacent, the first is "A", and an id is repeated at least
\* as often as the next one.  Ids of the pool the batch leaves out are
\* references to tasks outside the batch.
IdSeqs(n) ==
    {s \in [1..n -> IdPool] :
        /\ s[1] = "A"
        /\ \A i \in 1..(n - 1) : IdRank(s[i + 1]) - IdRank(s[i]) \in {0, 1}
        /\ \A a, b \in IdPool :
              IdRank(a) < IdRank(b) => Multiplicity(s, a) >= Multiplicity(s, b)}

\* the batch with the given ids whose dependency lists, one after the other, are `flat`
MakeBatch(ids, counts, flat) ==
    [i \in 1..Len(ids) |->
        Task(ids[i], SubSeq(flat, SumTo(counts, i - 1) + 1, SumTo(counts, i)))]

BatchIds(ts) == {TaskId(ts[i]) : i \in 1..Len(ts)}

\* every order in which a set can be iterated
Orders(S) ==
    {s \in [1..Cardinality(S) -> S] : \A i, j \in 1..Cardinality(S) : s[i] = s[j] => i = j}

NoCall == [fn |-> "none"]

NoRequest == [handler |-> "none"]

NoResponse == [status |-> 0]

\* no request is being handled
NoView ==
    /\ second = <<>>
    /\ request = NoRequest
    /\ scored_tasks = <<>>
    /\ response = NoResponse

InitCycle ==
    /\ \E n \in 1..MaxTasks : \E ids \in IdSeqs(n) : \E counts \in DepCounts(n) :
          \E flat \in [1..SumTo(counts, n) -> IdPool] :
              tasks = MakeBatch(ids, counts, flat)
    /\ order \in Orders(BatchIds(tasks))
    /\ graph = <<>>
    /\ task_ids = {}
    /\ visited = {}
    /\ rec_stack = {}
    /\ cycles = <<>>
    /\ stack = <<>>
    /\ taken = 0
    /\ pc = "call"
    /\ today = 0
    /\ call = NoCall
    /\ out = <<>>
    /\ NoView

NextCycle ==
    Detect_Begin \/ Detect_Start \/ Dfs_Neighbor \/ Dfs_Return \/ Detect_Return \/ Detect_Again

SpecCycle == InitCycle /\ [][NextCycle]_vars

-----------------------------------------------------------------------------
(* Numbers of the scoring engine *)

\* A component score is an integer number of 1/Scale; a strategy score, a sum
\* of component scores times tenths, an integer number of 1/(10 * Scale).
\* Scale is a multiple of 9 and of 100, so that (importance - 1) / 9 and the
\* two-decimal scores of the bands are exact.
Scale == 9 * 1000

Pct(p) == p * (Scale \div 100)

Min(a, b) == IF a <= b THEN a ELSE b
Max(a, b) == IF a >= b THEN a ELSE b

\* math.exp, to a fixed point of 1/ExpScale, rounded down.
ExpScale == 4 * 10000

FixMul(a, b) == (a * b) \div ExpScale

\* sum of term, term * r/(k*i), term * r^2/(k^2*i*(i+1)), ...: term * e^(r/k)
RECURSIVE ExpSeries(_, _, _, _)
ExpSeries(term, r, k, i) ==
    IF term = 0 THEN 0 ELSE term + ExpSeries((term * r) \div (k * i), r, k, i + 1)

\* e^(-r/k) for 0 <= r <= k
ExpFrac(r, k) == (ExpScale * ExpScale) \div ExpSeries(ExpScale, r, k, 1)

\* e^(-n/k) for n >= 0
RECURSIVE ExpNeg(_, _)
ExpNeg(n, k) ==
    IF n >= k THEN FixMul(ExpFrac(k, k), ExpNeg(n - k, k)) ELSE ExpFrac(n, k)

\* the factor without its exponential
Decay_Flat(c, n, k) == Pct(c)

\* c/100 * e^(-n/k), as a component score
Decay(c, n, k) == (Pct(c) * ExpNeg(n, k)) \div ExpScale

Result(score, explanation) == [score |-> score, explanation |-> explanation]

-----------------------------------------------------------------------------
(* calculate_urgency_score, scoring.py:62-122 *)

\* A due date is None, the empty string, a string in the format %Y-%m-%d
\* (kind "str", with the day it denotes), a string strptime rejects
\* ("badstr"), a date ("date"), or a value that is neither ("other", on which
\* the subtraction of line 85 raises TypeError).  A date is a day number.
Str(d) == [kind |-> "str", n |-> d]
EmptyStr == [kind |-> "empty", n |-> 0]
BadStr == [kind |-> "badstr", n |-> 0]
Other == [kind |-> "other", n |-> 0]

\* lines 87-119
UrgencyOfDays(days_until_due) ==
    IF days_until_due < 0
      THEN Result(Min(Scale, Pct(90) + (Pct(10) * (ExpScale - ExpNeg(-days_until_due, 7)))
                                           \div ExpScale),
                  "Overdue by " \o ToString(-days_until_due) \o " day(s) - high priority")
    ELSE IF days_until_due = 0
      THEN Result(Scale, "Due today - highest urgency")
    ELSE IF days_until_due <= 1
      THEN Result(Pct(95), "Due tomorrow - very high urgency")
    ELSE IF days_until_due <= 3
      THEN Result(Pct(85), "Due in 3 days - high urgency")
    ELSE IF days_until_due <= 7
      THEN Result(Pct(70) + Decay(15, days_until_due - 3, 4),
                  "Due in " \o ToString(days_until_due) \o " days - moderate-high urgency")
    ELSE IF days_until_due <= 14
      THEN Result(Pct(50) + Decay(20, days_until_due - 7, 7),
                  "Due in " \o ToString(days_until_due) \o " days - moderate urgency")
    ELSE IF days_until_due <= 30
      THEN Result(Pct(30) + Decay(20, days_until_due - 14, 16),
                  "Due in " \o ToString(days_until_due) \o " days - low-moderate urgency")
    ELSE Result(Max(Pct(10), Decay(30, days_until_due - 30, 30)),
                "Due in " \o ToString(days_until_due) \o " days - low urgency")

\* lines 73-74
CurrentDate(current_date, now) == IF current_date.kind = "none" THEN now ELSE current_date.n

calculate_urgency_score(due_date, current_date, now) ==
    IF due_date.kind \in {"none", "empty"}
      THEN Result(Pct(50), "No due date specified - neutral urgency")
    ELSE IF due_date.kind \in {"badstr", "other"}
      THEN Result(Pct(50), "Invalid due date format - neutral urgency")
    ELSE UrgencyOfDays(due_date.n - CurrentDate(current_date, now))

-----------------------------------------------------------------------------
(* calculate_importance_score, scoring.py:125-153 *)

\* the rating used as it comes
ClampImportance_Unclamped(importance) == importance

\* line 139
ClampImportance(importance) == Max(1, Min(10, importance))

\* normalised by the size of the range instead of its width
ImportanceValue_Tenths(clamped) == (clamped * Scale) \div 10

\* line 142
ImportanceValue(clamped) == ((clamped - 1) * Scale) \div 9

calculate_importance_score(importance) ==
    IF importance.kind = "none"
      THEN Result(Pct(50), "No importance specified - neutral score")
    ELSE LET c == ClampImportance(importance.n)
             of10 == " (" \o ToString(c) \o "/10)"
         IN  Result(ImportanceValue(c),
                    IF c >= 9 THEN "Very high importance" \o of10
                    ELSE IF c >= 7 THEN "High importance" \o of10
                    ELSE IF c >= 5 THEN "Moderate importance" \o of10
                    ELSE IF c >= 3 THEN "Low-moderate importance" \o of10
                    ELSE "Low importance" \o of10)

-----------------------------------------------------------------------------
(* calculate_effort_score, scoring.py:156-193 *)

\* An estimate is None or a number of 1/HourDen hours.
HourDen == 2

\* a band that ends before its last value (< for <=)
Hours_Exclusive(h) == h * HourDen - 1

Hours(h) == h * HourDen

\* the text of the number in line 191, as the fraction it is
HoursText(n) == ToString(n) \o "/" \o ToString(HourDen)

\* lines 171-191
EffortBand(n) ==
    IF n <= Hours(1) THEN Result(Scale, "Very quick task (<1 hour)")
    ELSE IF n <= Hours(2) THEN Result(Pct(90), "Quick task (1-2 hours)")
    ELSE IF n <= Hours(4) THEN Result(Pct(75), "Short task (2-4 hours)")
    ELSE IF n <= Hours(8) THEN Result(Pct(60), "Medium task (4-8 hours)")
    ELSE IF n <= Hours(16) THEN Result(Pct(40), "Long task (8-16 hours)")
    ELSE IF n <= Hours(40) THEN Result(Pct(25), "Very long task (16-40 hours)")
    ELSE Result(Max(Pct(10), Decay(25, n - Hours(40), Hours(40))),
                "Extensive task (" \o HoursText(n) \o " hours)")

\* line 166 without `or estimated_hours <= 0`
NoEstimate_NoneOnly(estimated_hours) == estimated_hours.kind = "none"

\* line 166
NoEstimate(estimated_hours) == estimated_hours.kind = "none" \/ estimated_hours.n <= 0

calculate_effort_score(estimated_hours) ==
    IF NoEstimate(estimated_hours)
      THEN Result(Pct(50), "No effort estimate - neutral score")
      ELSE EffortBand(estimated_hours.n)

-----------------------------------------------------------------------------
(* calculate_dependency_score, scoring.py:196-223 *)

\* lines 210-214 counting every entry of a dependency list that names the task
Dependents_PerEntry(task, all_tasks) ==
    LET RECURSIVE Entries(_)
        Entries(i) ==
            IF i = 0 THEN 0
            ELSE Entries(i - 1)
                 + Cardinality({j \in 1..Len(all_tasks[i].dependencies) :
                                    all_tasks[i].dependencies[j] = TaskId(task)})
    IN  Entries(Len(all_tasks))

\* lines 210-214
Dependents(task, all_tasks) ==
    Cardinality({i \in 1..Len(all_tasks) : TaskId(task) \in Range(all_tasks[i].dependencies)})

calculate_dependency_score(task, all_tasks) ==
    LET dependents == Dependents(task, all_tasks)
    IN  IF dependents = 0
          THEN Result(Pct(30), "No tasks depend on this - lower priority")
        ELSE IF dependents = 1
          THEN Result(Pct(60), "1 task depends on this - moderate priority")
        ELSE IF dependents <= 3
          THEN Result(Pct(80), ToString(dependents) \o " tasks depend on this - high priority")
        ELSE Result(Pct(100), ToString(dependents)
                                 \o " tasks depend on this - very high priority (blocking)")

-----------------------------------------------------------------------------
(* The strategies, scoring.py:226-331.  Scores in 1/(10 * Scale). *)

WScale == 10 * Scale

\* line 243 with the two weights exchanged
fastest_wins_score_Exchanged(task, all_tasks, current_date, now) ==
    LET effort == calculate_effort_score(task.estimated_hours)
        urgency == calculate_urgency_score(task.due_date, current_date, now)
    IN  Result(effort.score * 2 + urgency.score * 8,
               "Fastest Wins: " \o effort.explanation \o ". " \o urgency.explanation)

fastest_wins_score(task, all_tasks, current_date, now) ==
    LET effort == calculate_effort_score(task.estimated_hours)
        urgency == calculate_urgency_score(task.due_date, current_date, now)
    IN  Result(effort.score * 8 + urgency.score * 2,
               "Fastest Wins: " \o effort.explanation \o ". " \o urgency.explanation)

high_impact_score(task, all_tasks, current_date, now) ==
    LET importance == calculate_importance_score(task.importance)
        urgency == calculate_urgency_score(task.due_date, current_date, now)
    IN  Result(importance.score * 7 + urgency.score * 3,
               "High Impact: " \o importance.explanation \o ". " \o urgency.explanation)

deadline_driven_score(task, all_tasks, current_date, now) ==
    LET urgency == calculate_urgency_score(task.due_date, current_date, now)
        importance == calculate_importance_score(task.importance)
    IN  Result(urgency.score * 9 + importance.score * 1,
               "Deadline Driven: " \o urgency.explanation \o ". " \o importance.explanation)

smart_balance_score(task, all_tasks, current_date, now) ==
    LET urgency == calculate_urgency_score(task.due_date, current_date, now)
        importance == calculate_importance_score(task.importance)
        effort == calculate_effort_score(task.estimated_hours)
        dependency == calculate_dependency_score(task, all_tasks)
    IN  Result(urgency.score * 4 + importance.score * 3 + effort.score * 2
                   + dependency.score * 1,
               "Smart Balance: " \o urgency.explanation \o ". " \o importance.explanation
                   \o ". " \o effort.explanation \o ". " \o dependency.explanation)

-----------------------------------------------------------------------------
(* calculate_priority_score, scoring.py:334-361 *)

\* A strategy name is a sequence of characters.
FASTEST_WINS == <<"f", "a", "s", "t", "e", "s", "t", "_", "w", "i", "n", "s">>
HIGH_IMPACT == <<"h", "i", "g", "h", "_", "i", "m", "p", "a", "c", "t">>
DEADLINE_DRIVEN == <<"d", "e", "a", "d", "l", "i", "n", "e", "_", "d", "r", "i", "v", "e", "n">>
SMART_BALANCE == <<"s", "m", "a", "r", "t", "_", "b", "a", "l", "a", "n", "c", "e">>

\* the keys of strategy_map, lines 352-357
StrategyNames == {FASTEST_WINS, HIGH_IMPACT, DEADLINE_DRIVEN, SMART_BALANCE}

UpperCase == <<"A", "B", "C", "D", "E", "F", "G", "H", "I", "J", "K", "L", "M",
               "N", "O", "P", "Q", "R", "S", "T", "U", "V", "W", "X", "Y", "Z">>
LowerCase == <<"a", "b", "c", "d", "e", "f", "g", "h", "i", "j", "k", "l", "m",
               "n", "o", "p", "q", "r", "s", "t", "u", "v", "w", "x", "y", "z">>

LowerChar(c) ==
    IF c \in Range(UpperCase) THEN LowerCase[Index(UpperCase, c)] ELSE c

\* str.lower()
Lower(name) == [i \in 1..Len(name) |-> LowerChar(name[i])]

\* the fallback of line 359 naming another strategy
StrategyKey_FallbackFastest(strategy) ==
    IF Lower(strategy) \in StrategyNames THEN Lower(strategy) ELSE FASTEST_WINS

\* line 359: strategy_map.get(strategy.lower(), smart_balance_score)
StrategyKey(strategy) ==
    IF Lower(strategy) \in StrategyNames THEN Lower(strategy) ELSE SMART_BALANCE

calculate_priority_score(task, all_tasks, strategy, current_date, now) ==
    LET key == StrategyKey(strategy)
    IN  IF key = FASTEST_WINS THEN fastest_wins_score(task, all_tasks, current_date, now)
        ELSE IF key = HIGH_IMPACT THEN high_impact_score(task, all_tasks, current_date, now)
        ELSE IF key = DEADLINE_DRIVEN
          THEN deadline_driven_score(task, all_tasks, current_date, now)
        ELSE smart_balance_score(task, all_tasks, current_date, now)

-----------------------------------------------------------------------------
(* The scorers applied: a caller makes the call `call.a`, then the call      *)
(* `call.b`, of the function `call.fn`, and keeps the results in `out`.      *)

Arg == IF Len(out) = 0 THEN call.a ELSE call.b

Calling(fn) == call.fn = fn /\ Len(out) < 2

Returns(result) ==
    /\ out' = Append(out, result)
    /\ UNCHANGED <<tasks, order, cycleVars, today, call, second, viewVars>>

Call_urgency ==
    /\ Calling("urgency")
    /\ Returns(calculate_urgency_score(Arg.due_date, Arg.current_date, today))

Call_importance ==
    /\ Calling("importance")
    /\ Returns(calculate_importance_score(Arg.importance))

Call_effort ==
    /\ Calling("effort")
    /\ Returns(calculate_effort_score(Arg.estimated_hours))

Call_dependency ==
    /\ Calling("dependency")
    /\ Returns(calculate_dependency_score(Arg.task, Arg.all_tasks))

Call_priority ==
    /\ Calling("priority")
    /\ Returns(calculate_priority_score(Arg.task, Arg.all_tasks, Arg.strategy,
                                        Arg.current_date, today))

-----------------------------------------------------------------------------
(* Inputs of the scorers *)

DueDays == (0 - MaxOverdue)..MaxDays

DueDates ==
    {None, EmptyStr, BadStr, Other} \cup {Str(d) : d \in DueDays} \cup {Date(d) : d \in DueDays}

CurrentDates == {None, Date(0)}

Estimates == {None} \cup {Num(n) : n \in (0 - 1)..Hours(MaxHours)}

Importances == {None} \cup {IntV(n) : n \in (1 - ImpSlack)..(10 + ImpSlack)}

TaskWith(id, due_date, estimated_hours, importance, deps) ==
    [id |-> id, title |-> id, due_date |-> due_date,
     estimated_hours |-> estimated_hours, importance |-> importance,
     dependencies |-> deps]

\* a task "T" followed by n tasks that depend on it
WithDependents(task, n) ==
    <<task>> \o [i \in 1..n |-> Task("D" \o ToString(i), <<task.id>>)]

\* one due date, estimate and rating of every row of the scorers
DueSamples ==
    {None, BadStr} \cup
    {Date(d) : d \in {0 - MaxOverdue, 0 - 1, 0, 1, 3, 7, 14, 30, MaxDays}}

EstimateSamples ==
    {None} \cup {Num(n) : n \in {0, 1, Hours(2), Hours(8), Hours(40), Hours(MaxHours)}}

ImportanceSamples == {None} \cup {IntV(n) : n \in {1 - ImpSlack, 1, 5, 10, 10 + ImpSlack}}

Upper(name) ==
    [i \in 1..Len(name) |->
        IF name[i] \in Range(LowerCase) THEN UpperCase[Index(LowerCase, name[i])] ELSE name[i]]

\* the four names, two of them in other case, and two names of no strategy
StrategyInputs ==
    StrategyNames \cup
    {Upper(FASTEST_WINS), [HIGH_IMPACT EXCEPT ![1] = "H"], <<"b", "o", "g", "u", "s">>, <<>>}

UrgencyCall(d1, d2, c) ==
    [fn |-> "urgency",
     a |-> [due_date |-> d1, current_date |-> c],
     b |-> [due_date |-> Date(d2), current_date |-> c]]

ImportanceCall(i1, i2) ==
    [fn |-> "importance", a |-> [importance |-> i1], b |-> [importance |-> i2]]

EffortCall(h1, h2) ==
    [fn |-> "effort", a |-> [estimated_hours |-> h1], b |-> [estimated_hours |-> h2]]

\* the dependency lists of a task that depends on "T": alone, twice, among others
DependentLists == {<<"T">>, <<"T", "T">>, <<"X", "T">>}

\* a task "T", which may list itself, followed by n tasks that depend on it
\* and by m tasks that do not
DependencyBatch(self, n, deps, m) ==
    <<Task("T", IF self THEN <<"T">> ELSE <<>>)>>
        \o [i \in 1..n |-> Task("D" \o ToString(i), deps)]
        \o [i \in 1..m |-> Task("N" \o ToString(i), IF i = 1 THEN <<>> ELSE <<"X">>)]

DependencyBatches ==
    {DependencyBatch(self, n, deps, m) :
        self \in BOOLEAN, n \in 0..MaxDependents, deps \in DependentLists, m \in 0..2}

DependencyCall(b1, b2) ==
    [fn |-> "dependency",
     a |-> [task |-> b1[1], all_tasks |-> b1],
     b |-> [task |-> b2[1], all_tasks |-> b2]]

\* the same task of the same batch scored under a strategy name, then under
\* smart_balance
PriorityCall(task, n, strategy, c) ==
    [fn |-> "priority",
     a |-> [task |-> task, all_tasks |-> WithDependents(task, n),
            strategy |-> strategy, current_date |-> c],
     b |-> [task |-> task, all_tasks |-> WithDependents(task, n),
            strategy |-> SMART_BALANCE, current_date |-> c]]

ScoringCall ==
    \/ \E d1 \in DueDates, d2 \in DueDays, c \in CurrentDates : call = UrgencyCall(d1, d2, c)
    \/ \E i1, i2 \in Importances : call = ImportanceCall(i1, i2)
    \/ \E h1, h2 \in Estimates : call = EffortCall(h1, h2)
    \/ \E b1, b2 \in DependencyBatches : call = DependencyCall(b1, b2)
    \/ \E d \in DueSamples, h \in EstimateSamples, i \in ImportanceSamples,
          n \in 0..MaxDependents, s \in StrategyInputs, c \in CurrentDates :
          call = PriorityCall(TaskWith("T", d, h, i, <<>>), n, s, c)

InitScore ==
    /\ tasks = <<>>
    /\ order = <<>>
    /\ graph = <<>>
    /\ task_ids = {}
    /\ visited = {}
    /\ rec_stack = {}
    /\ cycles = <<>>
    /\ stack = <<>>
    /\ taken = 0
    /\ pc = "idle"
    /\ today \in 0..MaxToday
    /\ ScoringCall
    /\ out = <<>>
    /\ NoView

NextScore == Call_urgency \/ Call_importance \/ Call_effort \/ Call_dependency \/ Call_priority

SpecScore == InitScore /\ [][NextScore]_vars

-----------------------------------------------------------------------------
(* The dependency graph of a batch, read off the task records *)

DistinctIds(ts) == \A i, j \in 1..Len(ts) : TaskId(ts[i]) = TaskId(ts[j]) => i = j

\* u -> v: a task with id u lists v, and v is the id of a task of the batch
Edges(ts) ==
    {<<TaskId(ts[i]), v>> : i \in 1..Len(ts), v \in BatchIds(ts)} \cap
    {e \in BatchIds(ts) \X BatchIds(ts) :
        \E i \in 1..Len(ts) : TaskId(ts[i]) = e[1] /\ e[2] \in Range(ts[i].dependencies)}

Succ(E, S) == {e[2] : e \in {f \in E : f[1] \in S}}

RECURSIVE Closure(_, _)
Closure(E, S) == IF Succ(E, S) \subseteq S THEN S ELSE Closure(E, S \cup Succ(E, S))

\* the ids reachable from n by one or more edges
ReachPlus(E, n) == Closure(E, Succ(E, {n}))

OnCycle(ts, n) == n \in ReachPlus(Edges(ts), n)

HasCycle(ts) == \E n \in BatchIds(ts) : OnCycle(ts, n)

\* the ids a task lists that no task of the batch carries
GhostRefs(ts) == UNION {Range(ts[i].dependencies) : i \in 1..Len(ts)} \ BatchIds(ts)

InBatch(ids, s) == SelectSeq(s, LAMBDA x : x \in ids)

\* the batch with every reference to a task outside it removed
StripGhosts(ts) ==
    [i \in 1..Len(ts) |->
        [ts[i] EXCEPT !.dependencies = InBatch(BatchIds(ts), ts[i].dependencies)]]

Returned == pc = "done"

-----------------------------------------------------------------------------
(* Claims on the cycle detector, under SpecCycle *)

\* C2: for a batch with pairwise distinct ids and any iteration order, the
\* returned list is empty exactly when the dependency graph restricted to the
\* ids of the batch has no directed cycle.
C2_EmptyIffAcyclic ==
    (Returned /\ DistinctIds(tasks)) => ((cycles = <<>>) <=> ~HasCycle(tasks))

\* a ring A -> B -> C -> A has been analysed
C2_Witness ==
    /\ Returned
    /\ Len(tasks) = 3
    /\ DistinctIds(tasks)
    /\ \A i \in 1..3 : Len(tasks[i].dependencies) = 1
    /\ \A n \in BatchIds(tasks) : ReachPlus(Edges(tasks), n) = BatchIds(tasks)
    /\ cycles # <<>>

\* C3: every task that lies on a directed cycle of the batch's graph appears
\* in at least one returned cycle.
C3_EveryCycleMemberReported ==
    (Returned /\ DistinctIds(tasks)) =>
        \A n \in BatchIds(tasks) :
            OnCycle(tasks, n) => \E i \in 1..Len(cycles) : n \in Range(cycles[i])

\* C4: every recorded cycle is a closed walk of the graph: at least two
\* elements, first = last, every element the id of a task of the batch, and
\* every element lists its successor as a dependency.
ClosedWalk(c) ==
    /\ Len(c) >= 2
    /\ c[1] = c[Len(c)]
    /\ Range(c) \subseteq BatchIds(tasks)
    /\ \A j \in 1..(Len(c) - 1) :
          \E i \in 1..Len(tasks) :
              TaskId(tasks[i]) = c[j] /\ c[j + 1] \in Range(tasks[i].dependencies)

C4_CyclesAreClosedWalks == \A i \in 1..Len(cycles) : ClosedWalk(cycles[i])

\* a cycle through three tasks has been returned
C4_Witness == Returned /\ \E i \in 1..Len(cycles) : Len(cycles[i]) = 4

\* C5: a batch holding a task whose dependency list contains its own id gets
\* the two-element cycle (id, id) for that task.
C5_SelfDependencyReported ==
    Returned =>
        \A i \in 1..Len(tasks) :
            TaskId(tasks[i]) \in Range(tasks[i].dependencies) =>
                \E j \in 1..Len(cycles) : cycles[j] = <<TaskId(tasks[i]), TaskId(tasks[i])>>

\* C6: references to ids outside the batch are ignored: no returned cycle
\* contains one, and the returned list is the one returned for the batch
\* with those references removed, under the same iteration order.  (Nothing
\* in lines 21-57 can raise on such an id: it is only tested for membership.)
C6_GhostRefsIgnored ==
    Returned =>
        /\ \A i \in 1..Len(cycles) : Range(cycles[i]) \cap GhostRefs(tasks) = {}
        /\ cycles = detect_circular_dependencies(StripGhosts(tasks), order)

\* a task lists an outside id before an id that closes a cycle
C6_Witness ==
    /\ Returned
    /\ cycles # <<>>
    /\ \E i \in 1..Len(tasks) :
          /\ Len(tasks[i].dependencies) = 2
          /\ tasks[i].dependencies[1] \in GhostRefs(tasks)
          /\ tasks[i].dependencies[2] \in BatchIds(tasks)
          /\ \E j \in 1..Len(cycles) : TaskId(tasks[i]) \in Range(cycles[j])

-----------------------------------------------------------------------------
(* Claims on the scoring engine, under SpecScore *)

Done(fn) == call.fn = fn /\ Len(out) = 2

IsDay(due_date) == due_date.kind \in {"str", "date"}

\* days from the reference date of the call to the due date
DaysUntilDue(arg) ==
    arg.due_date.n - (IF arg.current_date.kind = "none" THEN today ELSE arg.current_date.n)

IsUnit(score) == 0 <= score /\ score <= Scale

\* C1: every score calculate_priority_score returns lies in [0,1], under the
\* four strategies (and any other name), and so does every component score,
\* whether called on its own or on the fields of the task being scored:
\* missing due date, missing or zero hours, importance outside 1..10 included.
C1_ScoresInUnitInterval ==
    \A j \in 1..Len(out) :
        LET arg == IF j = 1 THEN call.a ELSE call.b
        IN  IF call.fn = "priority"
              THEN /\ 0 <= out[j].score /\ out[j].score <= WScale
                   /\ IsUnit(calculate_urgency_score(arg.task.due_date,
                                                     arg.current_date, today).score)
                   /\ IsUnit(calculate_importance_score(arg.task.importance).score)
                   /\ IsUnit(calculate_effort_score(arg.task.estimated_hours).score)
                   /\ IsUnit(calculate_dependency_score(arg.task, arg.all_tasks).score)
              ELSE IsUnit(out[j].score)

\* a task with no due date, zero hours and importance above 10 has been
\* scored under fastest_wins in capitals and under smart_balance
C1_Witness ==
    /\ Done("priority")
    /\ call.a.task.due_date = None
    /\ call.a.task.estimated_hours = Num(0)
    /\ call.a.task.importance.n > 10
    /\ call.a.strategy = Upper(FASTEST_WINS)

\* C7 as stated: a strategy name that is not one of the four recognized
\* names gets the (score, explanation) of smart_balance.
C7_UnrecognizedIsSmartBalance ==
    (Done("priority") /\ call.a.strategy \notin StrategyNames) => out[1] = out[2]

\* C7 amended: a strategy name whose lower-case form is not one of the four
\* recognized names gets the (score, explanation) of smart_balance.
C7_UnrecognizedLowerIsSmartBalance ==
    (Done("priority") /\ Lower(call.a.strategy) \notin StrategyNames) => out[1] = out[2]

\* "bogus" and smart_balance have scored a task that fastest_wins would
\* have scored differently
C7_Witness ==
    /\ Done("priority")
    /\ call.a.strategy = <<"b", "o", "g", "u", "s">>
    /\ call.a.task.estimated_hours = Num(1)
    /\ Len(call.a.all_tasks) > 1

Clamped(n) == IF n < 1 THEN 1 ELSE IF n > 10 THEN 10 ELSE n

\* C8: the importance score of an integer rating is (clamped - 1)/9 with the
\* rating clamped to [1,10]: strictly increasing over 1..10, 0.0 at and below
\* 1, 1.0 at and above 10, 4/9 at 5.
C8_ImportanceLinearClamped ==
    Done("importance") =>
        /\ \A j \in 1..2 :
              LET i == (IF j = 1 THEN call.a ELSE call.b).importance
              IN  i.kind = "int" =>
                    /\ out[j].score * 9 = (Clamped(i.n) - 1) * Scale
                    /\ i.n <= 1 => out[j].score = 0
                    /\ i.n >= 10 => out[j].score = Scale
                    /\ i.n = 5 => out[j].score * 9 = 4 * Scale
        /\ (/\ call.a.importance.kind = "int"
            /\ call.b.importance.kind = "int"
            /\ 1 <= call.a.importance.n
            /\ call.a.importance.n < call.b.importance.n
            /\ call.b.importance.n <= 10) => out[1].score < out[2].score

\* ratings 5 and 12 have been scored
C8_Witness ==
    /\ Done("importance")
    /\ call.a.importance = IntV(5)
    /\ call.b.importance = IntV(12)

\* both calls of an urgency pair had a due date on or after the reference
\* date
UrgencyPair ==
    /\ Done("urgency")
    /\ IsDay(call.a.due_date)
    /\ DaysUntilDue(call.a) >= 0
    /\ DaysUntilDue(call.b) >= 0

\* C9 as stated: urgency is exactly 1.0 on the reference date and strictly
\* decreases as the days until due increase: 0 <= d1 < d2 gives
\* urgency(d1) > urgency(d2).
C9_UrgencyStrictlyDecreasing ==
    UrgencyPair =>
        LET d1 == DaysUntilDue(call.a)
            d2 == DaysUntilDue(call.b)
        IN  /\ d1 = 0 => out[1].score = Scale
            /\ d1 < d2 => out[1].score > out[2].score

\* C9 amended: urgency is exactly 1.0 on the reference date and never
\* increases as the days until due increase; it strictly decreases from d1 to
\* d2 > d1 except from 2 to 3 days (both 0.85) and from 63 days on (all 0.1).
C9_UrgencyNonIncreasing ==
    UrgencyPair =>
        LET d1 == DaysUntilDue(call.a)
            d2 == DaysUntilDue(call.b)
        IN  /\ d1 = 0 => out[1].score = Scale
            /\ d1 < d2 => out[1].score >= out[2].score
            /\ (d1 < d2 /\ ~(d1 = 2 /\ d2 = 3) /\ d1 < 63) => out[1].score > out[2].score

\* due dates 62 and 64 days after the reference date have been scored
C9_Witness == UrgencyPair /\ DaysUntilDue(call.a) = 62 /\ DaysUntilDue(call.b) = 64

\* both calls of an effort pair had a number of hours, zero or more
EffortPair ==
    /\ Done("effort")
    /\ call.a.estimated_hours.kind = "num"
    /\ call.b.estimated_hours.kind = "num"
    /\ call.a.estimated_hours.n >= 0
    /\ call.b.estimated_hours.n >= 0

\* C10 as stated: over the non-negative estimates, 0 included, h1 <= h2 gives
\* effort(h1) >= effort(h2), and every estimate of at most 1 hour scores 1.0.
C10_EffortNonIncreasingFromZero ==
    EffortPair =>
        LET n1 == call.a.estimated_hours.n
            n2 == call.b.estimated_hours.n
        IN  /\ n1 <= n2 => out[1].score >= out[2].score
            /\ n1 <= 1 * HourDen => out[1].score = Scale

\* C10 amended: over the positive estimates, h1 <= h2 gives
\* effort(h1) >= effort(h2), and every positive estimate of at most 1 hour
\* scores 1.0.
C10_EffortNonIncreasingPositive ==
    EffortPair =>
        LET n1 == call.a.estimated_hours.n
            n2 == call.b.estimated_hours.n
        IN  /\ (0 < n1 /\ n1 <= n2) => out[1].score >= out[2].score
            /\ (0 < n1 /\ n1 <= 1 * HourDen) => out[1].score = Scale

\* estimates of 1 hour and of more than 40 hours have been scored
C10_Witness ==
    /\ EffortPair
    /\ call.a.estimated_hours.n = 1 * HourDen
    /\ call.b.estimated_hours.n > 40 * HourDen

-----------------------------------------------------------------------------
\* the tasks of the batch whose dependency list contains the id, counted by
\* walking the batch
RECURSIVE CountDependents(_, _)
CountDependents(id, ts) ==
    IF Len(ts) = 0 THEN 0
    ELSE (IF \E j \in 1..Len(ts[1].dependencies) : ts[1].dependencies[j] = id THEN 1 ELSE 0)
         + CountDependents(id, Tail(ts))

DependencyTable(n) ==
    IF n = 0 THEN Pct(30) ELSE IF n = 1 THEN Pct(60) ELSE IF n <= 3 THEN Pct(80) ELSE Pct(100)

\* C11: calculate_dependency_score depends only on the number n of tasks of
\* the batch whose dependency list contains the task's id, each counted once:
\* 0.3 for n = 0, 0.6 for n = 1, 0.8 for n in 2..3, 1.0 for n > 3; so more
\* dependents never score lower, and some dependents score above none.
C11_DependencyScoreByCount ==
    Done("dependency") =>
        LET n1 == CountDependents(call.a.task.id, call.a.all_tasks)
            n2 == CountDependents(call.b.task.id, call.b.all_tasks)
        IN  /\ out[1].score = DependencyTable(n1)
            /\ out[2].score = DependencyTable(n2)
            /\ n1 = n2 => out[1] = out[2]
            /\ n1 <= n2 => out[1].score <= out[2].score
            /\ (n1 = 0 /\ n2 > 0) => out[1].score < out[2].score

\* a task with no dependents and a task that two tasks depend on, each of
\* which lists it twice, have been scored
C11_Witness ==
    /\ Done("dependency")
    /\ CountDependents("T", call.a.all_tasks) = 0
    /\ call.b.all_tasks \in {DependencyBatch(FALSE, 2, <<"T", "T">>, m) : m \in 0..2}

-----------------------------------------------------------------------------
Neutral == Pct(50)

\* C13: malformed optional data gets the documented neutral value: urgency
\* 0.5 for a missing due date, 0.5 and an explanation that flags the date
\* for an unparseable due-date string, effort 0.5 for missing or <= 0 hours,
\* importance 0.5 for a missing rating and the score of 1 or 10 for a rating
\* below 1 or above 10; and calculate_priority_score still returns a
\* (score, explanation) pair under every strategy name.
C13_MalformedDataIsNeutral ==
    \A j \in 1..Len(out) :
        LET arg == IF j = 1 THEN call.a ELSE call.b
        IN  /\ call.fn = "urgency" =>
                /\ arg.due_date \in {None, EmptyStr} =>
                       out[j] = Result(Neutral, "No due date specified - neutral urgency")
                /\ arg.due_date \in {BadStr, Other} =>
                       out[j] = Result(Neutral, "Invalid due date format - neutral urgency")
            /\ call.fn = "effort" =>
                ((arg.estimated_hours = None \/ arg.estimated_hours.n <= 0) =>
                    out[j] = Result(Neutral, "No effort estimate - neutral score"))
            /\ call.fn = "importance" =>
                /\ arg.importance = None => out[j].score = Neutral
                /\ (arg.importance # None /\ arg.importance.n < 1) =>
                       out[j] = Result(0, "Low importance (1/10)")
                /\ (arg.importance # None /\ arg.importance.n > 10) =>
                       out[j] = Result(Scale, "Very high importance (10/10)")
            /\ call.fn = "priority" =>
                /\ DOMAIN out[j] = {"score", "explanation"}
                /\ out[j].score \in 0..WScale
                /\ out[j].explanation # ""
                /\ (/\ arg.task.due_date \in {None, BadStr}
                    /\ arg.task.estimated_hours \in {None, Num(0)}
                    /\ arg.task.importance = None
                    /\ Lower(arg.strategy) \in StrategyNames \ {SMART_BALANCE}) =>
                       out[j].score = 10 * Neutral

\* a task with an unparseable due date, 0 hours and no rating has been scored
\* under deadline_driven, and then under smart_balance
C13_Witness ==
    /\ Done("priority")
    /\ call.a.task.due_date = BadStr
    /\ call.a.task.estimated_hours = Num(0)
    /\ call.a.task.importance = None
    /\ call.a.strategy = DEADLINE_DRIVEN

-----------------------------------------------------------------------------
\* C16: each strategy's score is the stated weighted sum of the component
\* scores, the weights summing to 1 (weights in tenths, scores in 1/WScale):
\* fastest_wins 8 effort + 2 urgency, high_impact 7 importance + 3 urgency,
\* deadline_driven 9 urgency + 1 importance, smart_balance 4 urgency +
\* 3 importance + 2 effort + 1 dependency; and calculate_priority_score
\* gives each recognized name the result of its own combiner.
C16_StrategiesAreWeightedSums ==
    \A j \in 1..Len(out) :
        LET arg == IF j = 1 THEN call.a ELSE call.b
        IN  (call.fn = "priority" /\ arg.strategy \in StrategyNames) =>
            LET u == calculate_urgency_score(arg.task.due_date, arg.current_date, today).score
                i == calculate_importance_score(arg.task.importance).score
                e == calculate_effort_score(arg.task.estimated_hours).score
                d == calculate_dependency_score(arg.task, arg.all_tasks).score
                w == IF arg.strategy = FASTEST_WINS THEN <<2, 0, 8, 0>>
                     ELSE IF arg.strategy = HIGH_IMPACT THEN <<3, 7, 0, 0>>
                     ELSE IF arg.strategy = DEADLINE_DRIVEN THEN <<9, 1, 0, 0>>
                     ELSE <<4, 3, 2, 1>>
                own == IF arg.strategy = FASTEST_WINS
                         THEN fastest_wins_score(arg.task, arg.all_tasks, arg.current_date, today)
                       ELSE IF arg.strategy = HIGH_IMPACT
                         THEN high_impact_score(arg.task, arg.all_tasks, arg.current_date, today)
                       ELSE IF arg.strategy = DEADLINE_DRIVEN
                         THEN deadline_driven_score(arg.task, arg.all_tasks,
                                                    arg.current_date, today)
                       ELSE smart_balance_score(arg.task, arg.all_tasks, arg.current_date, today)
            IN  /\ w[1] + w[2] + w[3] + w[4] = 10
                /\ out[j].score = w[1] * u + w[2] * i + w[3] * e + w[4] * d
                /\ out[j] = own

\* a task due in a week, of 8 hours and rating 10, with two dependents, has
\* been scored under fastest_wins and under smart_balance
C16_Witness ==
    /\ Done("priority")
    /\ call.a.strategy = FASTEST_WINS
    /\ call.a.task.due_date = Date(7)
    /\ call.a.task.estimated_hours = Num(Hours(8))
    /\ call.a.task.importance = IntV(10)
    /\ Len(call.a.all_tasks) = 3

-----------------------------------------------------------------------------
(* The core under any caller: a run of the detector or calls of the scorers *)

InitCore == InitCycle \/ InitScore

NextCore == NextCycle \/ NextScore

SpecCore == InitCore /\ [][NextCore]_vars

\* the arguments of a call are left as they were passed
ArgumentsKept == tasks' = tasks /\ call' = call

\* every result returned so far is the result of that call made on its own
ScoredAlone ==
    \A j \in 1..Len(out) :
        LET arg == IF j = 1 THEN call.a ELSE call.b
        IN  out[j] =
              CASE call.fn = "urgency" ->
                     calculate_urgency_score(arg.due_date, arg.current_date, today)
                [] call.fn = "importance" -> calculate_importance_score(arg.importance)
                [] call.fn = "effort" -> calculate_effort_score(arg.estimated_hours)
                [] call.fn = "dependency" -> calculate_dependency_score(arg.task, arg.all_tasks)
                [] call.fn = "priority" ->
                     calculate_priority_score(arg.task, arg.all_tasks, arg.strategy,
                                              arg.current_date, today)

-----------------------------------------------------------------------------
(* The detector scheduled: a running call takes its next step *)

\* the steps of one call
NextRun == Detect_Begin \/ Detect_Start \/ Dfs_Neighbor \/ Dfs_Return \/ Detect_Return

FairSpecCycle == SpecCycle /\ WF_vars(NextRun)

\* the node of the innermost activation
TopNode(s) == s[Len(s)].node

\* what a step of a running call does to the sets: `visited` only grows; an
\* activation is pushed only for a node not yet visited, which joins both
\* sets; a popped node leaves the on-stack set and stays visited
ExpandsOnlyUnvisited ==
    pc = "loop" =>
        /\ visited \subseteq visited'
        /\ Len(stack') > Len(stack) =>
               /\ Len(stack') = Len(stack) + 1
               /\ TopNode(stack') \notin visited
               /\ visited' = visited \cup {TopNode(stack')}
               /\ rec_stack' = rec_stack \cup {TopNode(stack')}
        /\ Len(stack') < Len(stack) =>
               /\ TopNode(stack) \in visited'
               /\ rec_stack' = rec_stack \ {TopNode(stack)}
        /\ Len(stack') = Len(stack) => visited' = visited /\ rec_stack' = rec_stack

\* C18: within one call each task id is expanded (added to `visited`, its
\* dependencies iterated) at most once: an explored node is never processed
\* again, as a start point or from another path; it stays in `visited` when
\* backtracking takes it off the on-stack set; and the call returns on every
\* batch, cyclic ones included, with the on-stack set empty.
C18_ExpandedOnceAndTerminates ==
    /\ [][ExpandsOnlyUnvisited]_vars
    /\ [](rec_stack = {TopNode(SubSeq(stack, 1, i)) : i \in 1..Len(stack)})
    /\ [](Returned => rec_stack = {} /\ visited = task_ids)
    /\ <>Returned

\* in a batch with a cycle, a dependency of the node being expanded names a
\* node that was explored earlier and is off the stack
C18_Witness ==
    /\ pc = "loop"
    /\ LoopPending(Cur)
    /\ Len(cycles) > 0
    /\ LET neighbor == GraphGet(graph, TopNode(stack))[stack[Len(stack)].i]
       IN  neighbor \in visited \ rec_stack

-----------------------------------------------------------------------------
\* no dependency list names the same id twice
NoRepeatedDependency(ts) ==
    \A i \in 1..Len(ts) : \A j, k \in 1..Len(ts[i].dependencies) :
        ts[i].dependencies[j] = ts[i].dependencies[k] => j = k

\* the dependency on which a cycle closes: from its last node but one to its last
ClosingEdge(c) == <<c[Len(c) - 1], c[Len(c)]>>

\* C19: for a batch with pairwise distinct ids in which no dependency list
\* names an id twice, the returned list holds no cycle twice, it is no longer
\* than the number of dependencies between tasks of the batch, and each
\* cycle closes on a dependency of its own.
C19_CyclesDistinctAndBounded ==
    (Returned /\ DistinctIds(tasks) /\ NoRepeatedDependency(tasks)) =>
        /\ \A i, j \in 1..Len(cycles) : cycles[i] = cycles[j] => i = j
        /\ Len(cycles) <= Cardinality(Edges(tasks))
        /\ \A i \in 1..Len(cycles) :
               Len(cycles[i]) >= 2 /\ ClosingEdge(cycles[i]) \in Edges(tasks)
        /\ \A i, j \in 1..Len(cycles) :
               ClosingEdge(cycles[i]) = ClosingEdge(cycles[j]) => i = j

\* three tasks with distinct ids, and two cycles returned
C19_Witness ==
    /\ Returned
    /\ DistinctIds(tasks)
    /\ NoRepeatedDependency(tasks)
    /\ Len(tasks) = 3
    /\ Len(cycles) = 2

-----------------------------------------------------------------------------
(* The request handlers, views.py.  A field of a request is Absent, None    *)
(* (JSON null) or a value.                                                   *)

Absent == [kind |-> "absent", n |-> 0]
Text(s) == [kind |-> "text", s |-> s]

\* views.py:52
valid_strategies == <<FASTEST_WINS, HIGH_IMPACT, DEADLINE_DRIVEN, SMART_BALANCE>>

\* lines 37 and 183: data.get('strategy', 'smart_balance')
StrategyOf(req) == IF req.strategy.kind = "absent" THEN SMART_BALANCE ELSE req.strategy.s

\* lines 63-64 and 168-169: the id of a task that has none is its title, or
\* its position when it has no title either
DerivedId(task_data, idx) ==
    IF task_data.id.kind # "absent" THEN task_data.id
    ELSE IF task_data.title.kind = "text" THEN task_data.title
    ELSE Text("task_" \o ToString(idx))

\* serializers.py:7-29: is_valid()
IsValid(task_data) ==
    /\ task_data.title.kind = "text"
    /\ task_data.due_date.kind \in {"absent", "none", "str"}
    /\ task_data.estimated_hours.kind \in {"absent", "none"}
           \/ (task_data.estimated_hours.kind = "num" /\ task_data.estimated_hours.n >= 0)
    /\ task_data.importance.kind = "absent"
           \/ (/\ task_data.importance.kind = "int"
               /\ task_data.importance.n >= 1
               /\ task_data.importance.n <= 10)

\* serializers.py:7-17: validated_data.  A null id stays None in it, and
\* str() of scoring.py:25 and views.py:88 makes it 'None'; DateField turns
\* the string into a date; importance defaults to 5, dependencies to [].
ValidatedData(task_data, idx) ==
    LET id == DerivedId(task_data, idx)
    IN  [id |-> IF id.kind = "text" THEN id.s ELSE "None",
         title |-> task_data.title.s,
         due_date |-> IF task_data.due_date.kind = "str"
                        THEN Date(task_data.due_date.n) ELSE None,
         estimated_hours |-> IF task_data.estimated_hours.kind = "num"
                               THEN task_data.estimated_hours ELSE None,
         importance |-> IF task_data.importance.kind = "int"
                          THEN task_data.importance ELSE IntV(5),
         dependencies |-> task_data.dependencies]

\* lines 60-75 and 166-180: the index of the first invalid task, 0 if none
RECURSIVE FirstInvalid(_, _)
FirstInvalid(tasks_data, idx) ==
    IF idx > Len(tasks_data) THEN 0
    ELSE IF ~IsValid(tasks_data[idx]) THEN idx
    ELSE FirstInvalid(tasks_data, idx + 1)

validated_tasks(tasks_data) ==
    [i \in 1..Len(tasks_data) |-> ValidatedData(tasks_data[i], i - 1)]

BadRequest(error) == [status |-> 400, error |-> error]

\* round(score, 4), in 1/10000
Round4(score) == (score * 10000 + WScale \div 2) \div WScale

\* lines 99-110 (analyze_tasks) and 198-209 (suggest_tasks)
ScoredTask(task, result, circular_deps, flagged) ==
    LET task_id == TaskId(task)
        chains == SelectSeq(circular_deps, LAMBDA cycle : task_id \in Range(cycle))
    IN  [id |-> task_id,
         title |-> task.title,
         due_date |-> task.due_date,
         estimated_hours |-> task.estimated_hours,
         importance |-> task.importance,
         dependencies |-> task.dependencies,
         priority_score |-> Round4(result.score),
         explanation |-> result.explanation,
         has_circular_dependency |-> flagged /\ Len(chains) > 0,
         circular_dependency_chain |-> IF flagged THEN chains ELSE <<>>]

\* the order of the sort without reverse=True
Before_Ascending(x, y) == x.priority_score < y.priority_score

\* lines 115 and 214: key=priority_score, reverse=True
Before(x, y) == x.priority_score > y.priority_score

\* list.sort is stable: a task goes after the tasks that are not to come after it
RECURSIVE Sorted(_)
Sorted(s) ==
    IF Len(s) = 0 THEN <<>>
    ELSE LET rest == Sorted(SubSeq(s, 1, Len(s) - 1))
             x == s[Len(s)]
             RECURSIVE Place(_)
             Place(k) ==
                 IF k > Len(rest) \/ Before(x, rest[k])
                   THEN SubSeq(rest, 1, k - 1) \o <<x>> \o SubSeq(rest, k, Len(rest))
                   ELSE Place(k + 1)
         IN  Place(1)

\* scored_tasks[:3]
Top3(s) == SubSeq(s, 1, IF Len(s) < 3 THEN Len(s) ELSE 3)

-----------------------------------------------------------------------------
(* analyze_tasks, views.py:13-132 *)

\* lines 33-75
Analyze_Validate ==
    /\ pc = "request"
    /\ request.handler = "analyze"
    /\ LET tasks_data == IF request.has_tasks THEN request.tasks_data ELSE <<>>
           strategy == StrategyOf(request)
           idx == FirstInvalid(tasks_data, 1)
       IN  IF tasks_data = <<>>
             THEN /\ response' = BadRequest("No tasks provided. Please provide a list of tasks.")
                  /\ pc' = "responded"
                  /\ tasks' = tasks
           ELSE IF strategy \notin Range(valid_strategies)
             THEN /\ response' = BadRequest("Invalid strategy")
                  /\ pc' = "responded"
                  /\ tasks' = tasks
           ELSE IF idx # 0
             THEN /\ response' = BadRequest("Invalid task at index " \o ToString(idx - 1))
                  /\ pc' = "responded"
                  /\ tasks' = tasks
           ELSE /\ tasks' = validated_tasks(tasks_data)
                /\ pc' = "detect"
                /\ response' = response
    /\ UNCHANGED <<order, graph, task_ids, visited, rec_stack, cycles, stack, taken,
                   scoreVars, second, request, scored_tasks>>

\* lines 78-81
Analyze_Detect ==
    /\ pc = "detect"
    /\ \E ord \in Orders(BatchIds(tasks)) :
          /\ order' = ord
          /\ cycles' = detect_circular_dependencies(tasks, ord)
    /\ pc' = "score"
    /\ UNCHANGED <<tasks, graph, task_ids, visited, rec_stack, stack, taken,
                   scoreVars, second, viewVars>>

\* lines 87-112: one turn of `for task in validated_tasks`
Analyze_Score ==
    /\ pc = "score"
    /\ request.handler = "analyze"
    /\ Len(scored_tasks) < Len(tasks)
    /\ LET task == tasks[Len(scored_tasks) + 1]
           result == calculate_priority_score(task, tasks, StrategyOf(request),
                                              Date(today), today)
       IN  scored_tasks' = Append(scored_tasks, ScoredTask(task, result, cycles, TRUE))
    /\ UNCHANGED <<tasks, order, cycleVars, scoreVars, second, request, response>>

\* lines 115-126
Analyze_Respond ==
    /\ pc = "score"
    /\ request.handler = "analyze"
    /\ Len(scored_tasks) = Len(tasks)
    /\ scored_tasks' = Sorted(scored_tasks)
    /\ response' = [status |-> 200,
                    tasks |-> scored_tasks',
                    strategy_used |-> StrategyOf(request),
                    total_tasks |-> Len(scored_tasks),
                    circular_dependencies_detected |-> Len(cycles) > 0,
                    circular_dependency_count |-> Len(cycles)]
    /\ pc' = "responded"
    /\ UNCHANGED <<tasks, order, graph, task_ids, visited, rec_stack, cycles, stack,
                   taken, scoreVars, second, request>>

-----------------------------------------------------------------------------
(* suggest_tasks, views.py:135-236 *)

\* lines 145-183: the strategy of line 183 is taken as it comes
Suggest_Validate ==
    /\ pc = "request"
    /\ request.handler = "suggest"
    /\ LET idx == FirstInvalid(request.tasks_data, 1)
       IN  IF ~request.has_tasks
             THEN /\ response' = [status |-> 200, suggestions |-> <<>>,
                                  message |-> "No tasks provided."]
                  /\ pc' = "responded"
                  /\ tasks' = tasks
           ELSE IF idx # 0
             THEN /\ response' = BadRequest("Invalid task at index " \o ToString(idx - 1))
                  /\ pc' = "responded"
                  /\ tasks' = tasks
           ELSE /\ tasks' = validated_tasks(request.tasks_data)
                /\ pc' = "score"
                /\ response' = response
    /\ UNCHANGED <<order, graph, task_ids, visited, rec_stack, cycles, stack, taken,
                   scoreVars, second, request, scored_tasks>>

\* lines 189-211: one turn of `for task in validated_tasks`
Suggest_Score ==
    /\ pc = "score"
    /\ request.handler = "suggest"
    /\ Len(scored_tasks) < Len(tasks)
    /\ LET task == tasks[Len(scored_tasks) + 1]
           result == calculate_priority_score(task, tasks, StrategyOf(request),
                                              Date(today), today)
       IN  scored_tasks' = Append(scored_tasks, ScoredTask(task, result, <<>>, FALSE))
    /\ UNCHANGED <<tasks, order, cycleVars, scoreVars, second, request, response>>

\* lines 214-230
Suggest_Respond ==
    /\ pc = "score"
    /\ request.handler = "suggest"
    /\ Len(scored_tasks) = Len(tasks)
    /\ scored_tasks' = Sorted(scored_tasks)
    /\ response' = [status |-> 200,
                    suggestions |-> [i \in 1..Len(Top3(scored_tasks')) |->
                                        [rank |-> i, task |-> scored_tasks'[i]]],
                    strategy_used |-> StrategyOf(request),
                    total_tasks_analyzed |-> Len(tasks)]
    /\ pc' = "responded"
    /\ UNCHANGED <<tasks, order, graph, task_ids, visited, rec_stack, cycles, stack,
                   taken, scoreVars, second, request>>

-----------------------------------------------------------------------------
(* Requests *)

\* the id and the title of a task of a request: an id of its own, no id, a
\* null id, neither id nor title
IdTitles ==
    {<<Text("A"), Text("a")>>, <<Text("B"), Text("b")>>, <<Absent, Text("A")>>,
     <<None, Text("n")>>, <<Absent, Absent>>}

\* due date, hours and rating of a task of a request: urgent and short,
\* distant and long, left out, out of range
Fields ==
    {<<Str(0), Num(Hours(1)), IntV(10)>>, <<Str(60), Num(Hours(80)), IntV(1)>>,
     <<Absent, Absent, Absent>>, <<None, Num(0 - 1), IntV(11)>>}

TaskData ==
    {[id |-> it[1], title |-> it[2], due_date |-> f[1], estimated_hours |-> f[2],
      importance |-> f[3], dependencies |-> deps] :
        it \in IdTitles, f \in Fields, deps \in {<<>>, <<"A">>}}

\* the strategies asked for: none, two of the four, one of them in another
\* case, and a name of no strategy
RequestStrategies ==
    {Absent, Text(SMART_BALANCE), Text(FASTEST_WINS),
     Text([HIGH_IMPACT EXCEPT ![1] = "H"]), Text(<<"b", "o", "g", "u", "s">>)}

InitView ==
    /\ \E handler \in {"analyze", "suggest"}, strategy \in RequestStrategies,
          tasks_data \in SeqsUpTo(TaskData, MaxRequestTasks), has_tasks \in BOOLEAN :
          /\ ~has_tasks => tasks_data = <<>>
          /\ request = [handler |-> handler, strategy |-> strategy,
                        has_tasks |-> has_tasks, tasks_data |-> tasks_data]
    /\ tasks = <<>>
    /\ order = <<>>
    /\ graph = <<>>
    /\ task_ids = {}
    /\ visited = {}
    /\ rec_stack = {}
    /\ cycles = <<>>
    /\ stack = <<>>
    /\ taken = 0
    /\ pc = "request"
    /\ today = 0
    /\ call = NoCall
    /\ out = <<>>
    /\ second = <<>>
    /\ scored_tasks = <<>>
    /\ response = NoResponse

NextView ==
    \/ Analyze_Validate \/ Analyze_Detect \/ Analyze_Score \/ Analyze_Respond
    \/ Suggest_Validate \/ Suggest_Score \/ Suggest_Respond

SpecView == InitView /\ [][NextView]_vars

-----------------------------------------------------------------------------
(* Claims on the request handlers, under SpecView *)

Responded(status) == pc = "responded" /\ response.status = status

\* the scored tasks a 200 response lists, in its order
ResponseTasks ==
    IF request.handler = "analyze" THEN response.tasks
    ELSE [i \in 1..Len(response.suggestions) |-> response.suggestions[i].task]

\* importance 10, due on the reference date, 1 hour
IsT1(t) ==
    t.importance = IntV(10) /\ t.due_date = Date(today) /\ t.estimated_hours = Num(Hours(1))

\* importance 1, due 60 days later, 80 hours
IsT2(t) ==
    t.importance = IntV(1) /\ t.due_date = Date(today + 60)
        /\ t.estimated_hours = Num(Hours(80))

\* C12: under smart_balance with a common reference date, a task with
\* importance 10, due on the reference date, 1 hour, scores strictly above a
\* task with importance 1, due 60 days later, 80 hours, of the same batch,
\* and comes before it in the list sorted by descending score.
C12_T1RanksAboveT2 ==
    (Responded(200) /\ request.has_tasks /\ StrategyOf(request) = SMART_BALANCE) =>
        /\ \A i, j \in 1..Len(tasks) :
               (IsT1(tasks[i]) /\ IsT2(tasks[j])) =>
                   smart_balance_score(tasks[i], tasks, Date(today), today).score
                       > smart_balance_score(tasks[j], tasks, Date(today), today).score
        /\ \A p, q \in 1..Len(ResponseTasks) :
               (IsT1(ResponseTasks[p]) /\ IsT2(ResponseTasks[q])) =>
                   /\ p < q
                   /\ ResponseTasks[p].priority_score > ResponseTasks[q].priority_score

\* analyze_tasks has answered a request that lists the distant task first,
\* the urgent task second, the urgent one depending on the distant one
C12_Witness ==
    /\ Responded(200)
    /\ request.handler = "analyze"
    /\ StrategyOf(request) = SMART_BALANCE
    /\ Len(tasks) = 2
    /\ IsT2(tasks[1])
    /\ IsT1(tasks[2])
    /\ tasks[2].dependencies = <<TaskId(tasks[1])>>
    /\ IsT1(response.tasks[1])

\* the core is being called, or has been called, for the request
CoreScoring == (pc = "score" /\ Len(tasks) > 0) \/ Len(scored_tasks) > 0

\* C14: both request handlers reject a strategy name outside the recognized
\* set before the core is invoked: calculate_priority_score is never called
\* with an unrecognized strategy name.
C14_CoreGetsRecognizedStrategy ==
    CoreScoring => StrategyOf(request) \in StrategyNames

\* the core has been handed the batch: the detector or the scorer is to run
CoreInvoked == pc \in {"detect", "score"}

\* C15: no two tasks of the validated batch handed to
\* detect_circular_dependencies and calculate_priority_score have the same id.
C15_IdsUniqueInBatch ==
    CoreInvoked => DistinctIds(tasks)

=============================================================================
